---- MODULE Spec2Model ----
(***************************************************************************)
(* GraphQLDatabaseLoader (src/src/loader.ts) with its query planner        *)
(* (src/src/select.ts): the pending queue, the promise cache, the deferred *)
(* flush (setImmediate), the batches awaiting the database, and the        *)
(* promises handed to callers.                                             *)
(*                                                                         *)
(* Encoding.  A condition object is a sequence of <<field, value>> pairs   *)
(* in key-insertion order; a selection is a record with a kind ("null",    *)
(* "tree", "undefined") and an ordered sequence of <<name, selection>>     *)
(* children.  JSON.stringify keeps that order, and md5 is taken to be      *)
(* injective, so the cache key is the pair <<where, fields>>.  Database    *)
(* values are strings, SqlNull is the SQL NULL.  A raw column named        *)
(* alias_a_b is the record [alias |-> alias, path |-> <<"a", "b">>].       *)
(***************************************************************************)
EXTENDS Integers, Sequences, FiniteSets, TLC

\* Bounds of the model.
MaxRequests == 3
MaxBatchLen == 2
MaxBatchCalls == 1

SqlNull == "NULL"

----------------------------------------------------------------------------
\* Selections (src/src/select.ts, type Selection) and conditions.

NullSelection == [kind |-> "null", children |-> <<>>]
UndefinedSelection == [kind |-> "undefined", children |-> <<>>]
Leaf == [kind |-> "tree", children |-> <<>>]
Tree(names) == [kind |-> "tree", children |-> [i \in 1..Len(names) |-> <<names[i], Leaf>>]]

\* `name in selection.children`
HasChild(selection, name) == \E i \in 1..Len(selection.children) : selection.children[i][1] = name

\* selection.children[name]
Child(selection, name) ==
  IF HasChild(selection, name)
  THEN selection.children[CHOOSE i \in 1..Len(selection.children) : selection.children[i][1] = name][2]
  ELSE UndefinedSelection

\* Entity metadata of the connection: the entities of src/src/tests/entity
\* (columns limited to two per entity).  An entity that is not registered has
\* no metadata and connection.getMetadata throws for it.
Registered == {"Post", "User"}
Meta ==
  [Post |-> [columns |-> <<"id", "title">>,
             relations |-> <<[propertyName |-> "owner", target |-> "Post", inverse |-> "User"]>>],
   User |-> [columns |-> <<"id", "email">>,
             relations |-> <<>>]]

Range(s) == {s[i] : i \in 1..Len(s)}

\* The inputs of the model: the calls a caller makes.  ById("1") matches a
\* Post and a User, ById("3") matches no row; "kind" is a field of the GraphQL
\* type that is no column of the entity; "Tag" is not registered.
ById(v) == << <<"id", v>> >>
Conditions == { ById("1"), ById("3") }
Calls ==
  { [entity |-> "Post", where |-> ById("1"), fields |-> NullSelection],
    [entity |-> "User", where |-> ById("1"), fields |-> NullSelection],
    [entity |-> "Post", where |-> ById("3"), fields |-> NullSelection],
    [entity |-> "Post", where |-> ById("1"), fields |-> Tree(<<"kind">>)],
    [entity |-> "Tag",  where |-> ById("3"), fields |-> NullSelection] }

\* hash.update(JSON.stringify([ where, fields ])).digest().toString('hex')
Key(where, fields) == <<where, fields>>

----------------------------------------------------------------------------
VARIABLES
  queue,       \* this._queue: sequence of request records
  cache,       \* this._cache: set of entries [key, pid]
  immediate,   \* this._immediate: the last handle setImmediate returned, 0 if none
  armed,       \* event loop: the handles whose callback has not yet run
  inflight,    \* processAll runs suspended at `await qb.getRawMany()`
  promises,    \* the promises created by loadOne/loadMany, by id
  microtasks,  \* pending promise reactions that will settle a promise
  db,          \* the tables of the database
  batchCalls,  \* batchLoadMany calls: their conditions and element futures
  sinceClear,  \* ids of the queued requests enqueued since the last clear()
  cleared,     \* whether the latest step was a call of clear()
  plan,        \* a call of the planner select(): its recursion stack and query builder
  flat         \* a call of graphqlFields(): its resolver information and what it returned

vars == <<queue, cache, immediate, armed, inflight, promises, microtasks, db,
          batchCalls, sinceClear, cleared, plan, flat>>

\* Promise values.
Undefined == [t |-> "undefined"]
Entity(type, props) == [t |-> "entity", type |-> type, props |-> props]
List(items) == [t |-> "list", items |-> items]
Error(msg) == [t |-> "error", msg |-> msg]

Pending == [st |-> "pending", val |-> Undefined]

Post1 == [id |-> "1", title |-> "a", owner |-> "1"]
Post2 == [id |-> "2", title |-> "b", owner |-> SqlNull]
User1 == [id |-> "1", email |-> "e"]

Databases ==
  { [Post |-> <<Post1, Post2>>, User |-> <<User1>>],
    [Post |-> <<Post1, Post2>>, User |-> <<>>] }

\* No call of select() is being followed step by step.
NoPlan ==
  [version |-> "none", model |-> "none", selection |-> [kind |-> "undefined", children |-> <<>>],
   stack |-> <<>>, selects |-> <<>>, joins |-> <<>>, froms |-> <<>>, history |-> {},
   thrown |-> FALSE]

\* No call of graphqlFields() is being followed.
NoFlat == [fieldNodes |-> <<>>, fragments |-> <<>>, result |-> [st |-> "none"]]

Init ==
  /\ queue = <<>>
  /\ cache = {}
  /\ immediate = 0
  /\ armed = {}
  /\ inflight = {}
  /\ promises = <<>>
  /\ microtasks = {}
  /\ db \in Databases
  /\ batchCalls = {}
  /\ sinceClear = {}
  /\ cleared = FALSE
  /\ plan = NoPlan
  /\ flat = NoFlat

----------------------------------------------------------------------------
\* The cache (Map<string, Promise>) as a set of entries.

CacheHas(c, key) == \E e \in c : e.key = key
CacheGet(c, key) == (CHOOSE e \in c : e.key = key).pid
CacheSet(c, key, pid) == {e \in c : e.key # key} \cup {[key |-> key, pid |-> pid]}
CacheDelete(c, key) == {e \in c : e.key # key}

\* The loader's own fields and the promises it has created, as one record,
\* so that batchLoadMany can chain loadOne calls.
Loader ==
  [queue |-> queue, cache |-> cache, immediate |-> immediate, armed |-> armed,
   promises |-> promises, sinceClear |-> sinceClear]

Request(many, key, where, fields, entity, pid) ==
  [many |-> many, key |-> key, where |-> where, fields |-> fields,
   entity |-> entity, pid |-> pid]

\* Mutant of Rearm: the armed flush is cancelled and no new one is armed.
RearmCancelOnly(L, h) == IF L.immediate # 0 THEN L.armed \ {L.immediate} ELSE L.armed

\* Mutant of Rearm: a new flush is armed and the armed one is not cancelled.
RearmNoCancel(L, h) == L.armed \cup {h}

\* Mutant of Rearm: a flush is armed only while this._immediate was never set.
RearmOnlyFirst(L, h) == IF L.immediate # 0 THEN L.armed ELSE L.armed \cup {h}

\* clearImmediate(this._immediate) followed by setImmediate(...): the handle h
\* replaces the cancelled one among the armed callbacks.
Rearm(L, h) == (IF L.immediate # 0 THEN L.armed \ {L.immediate} ELSE L.armed) \cup {h}

\* The body shared by loadOne (many = FALSE) and loadMany (many = TRUE):
\* the loader after the call, the future returned, and whether it was cached.
Load(L, entity, where, fields, many) ==
  LET key == Key(where, fields)
      pid == Len(L.promises) + 1
  IN  IF CacheHas(L.cache, key)
      THEN [L |-> L, ret |-> CacheGet(L.cache, key), hit |-> TRUE]
      ELSE [L |-> [queue |-> Append(L.queue, Request(many, key, where, fields, entity, pid)),
                   cache |-> CacheSet(L.cache, key, pid),
                   immediate |-> pid,
                   armed |-> Rearm(L, pid),
                   promises |-> Append(L.promises, Pending),
                   sinceClear |-> L.sinceClear \cup {pid}],
            ret |-> pid, hit |-> FALSE]

Install(L) ==
  /\ queue' = L.queue
  /\ cache' = L.cache
  /\ immediate' = L.immediate
  /\ armed' = L.armed
  /\ promises' = L.promises
  /\ sinceClear' = L.sinceClear

LoadOne(entity, where, fields) ==
  LET r == Load(Loader, entity, where, fields, FALSE) IN
  /\ Len(r.L.promises) <= MaxRequests
  /\ Install(r.L)
  /\ cleared' = FALSE
  /\ UNCHANGED <<inflight, microtasks, db, batchCalls, plan, flat>>

LoadMany(entity, where, fields) ==
  LET r == Load(Loader, entity, where, fields, TRUE) IN
  /\ Len(r.L.promises) <= MaxRequests
  /\ Install(r.L)
  /\ cleared' = FALSE
  /\ UNCHANGED <<inflight, microtasks, db, batchCalls, plan, flat>>

\* Mutant of FanOut: the conditions are served last to first, so the futures
\* come back in the reverse of the input order.
RECURSIVE FanOutReversed(_, _, _, _, _)
FanOutReversed(L, entity, wheres, fields, i) ==
  IF i > Len(wheres)
  THEN [L |-> L, rets |-> <<>>]
  ELSE LET rest == FanOutReversed(L, entity, wheres, fields, i + 1)
           r == Load(rest.L, entity, wheres[i], fields, FALSE)
       IN  [L |-> r.L, rets |-> rest.rets \o <<r.ret>>]

\* where.map(w => this.loadOne(entity, w, info)): the loader after the calls
\* for the conditions i..Len(wheres), and the futures they returned, in order.
RECURSIVE FanOut(_, _, _, _, _)
FanOut(L, entity, wheres, fields, i) ==
  IF i > Len(wheres)
  THEN [L |-> L, rets |-> <<>>]
  ELSE LET r == Load(L, entity, wheres[i], fields, FALSE)
           rest == FanOut(r.L, entity, wheres, fields, i + 1)
       IN  [L |-> rest.L, rets |-> <<r.ret>> \o rest.rets]

BatchLoadMany(entity, wheres, fields) ==
  LET r == FanOut(Loader, entity, wheres, fields, 1) IN
  /\ Cardinality(batchCalls) < MaxBatchCalls
  /\ Len(r.L.promises) <= MaxRequests
  /\ Install(r.L)
  /\ batchCalls' = batchCalls \cup
       {[entity |-> entity, wheres |-> wheres, fields |-> fields, rets |-> r.rets]}
  /\ cleared' = FALSE
  /\ UNCHANGED <<inflight, microtasks, db, plan, flat>>

\* Mutant of Cleared: only the entries of settled promises are evicted.
ClearedSettledOnly(c) == {e \in c : promises[e.pid].st \in {"pending", "locked"}}

\* this._cache.clear()
Cleared(c) == {}

Clear ==
  /\ cache' = Cleared(cache)
  /\ sinceClear' = {}
  /\ cleared' = TRUE
  /\ UNCHANGED <<queue, immediate, armed, inflight, promises, microtasks, db, batchCalls, plan, flat>>

----------------------------------------------------------------------------
\* The planner (src/src/select.ts).  The query builder is represented by what
\* the demultiplexer reads of it: the paths of the columns projected under the
\* request's alias.

RelationNames(model) == {Meta[model].relations[i].propertyName : i \in 1..Len(Meta[model].relations)}
Relation(model, name) ==
  Meta[model].relations[CHOOSE i \in 1..Len(Meta[model].relations) :
                          Meta[model].relations[i].propertyName = name]

\* select(model, selection, connection, qb, alias): the column paths added to
\* the projection, each relative to the request's alias; prefix is the part of
\* the alias below the request's key.
RECURSIVE select(_, _, _)
select(model, selection, prefix) ==
  LET meta == Meta[model] IN
  IF selection.kind = "tree"
  THEN {prefix \o <<c>> : c \in {f \in Range(meta.columns) : HasChild(selection, f)}}
       \cup UNION { select(r.target, Child(selection, r.target), prefix \o <<r.target>>) :
                    r \in {x \in Range(meta.relations) : HasChild(selection, x.propertyName)} }
  ELSE IF selection.kind = "null"
  THEN {prefix \o <<c>> : c \in Range(meta.columns)}
       \cup UNION { select(r.inverse, NullSelection, prefix \o <<r.propertyName>>) :
                    r \in Range(meta.relations) }
  ELSE {}

\* qb.leftJoin(alias + '.' + name, childAlias) of the tree branch, where name
\* is the name of relation.target, the entity that declares the relation: the
\* query builder throws when the entity has no relation with that property
\* path.
RECURSIVE JoinThrows(_, _)
JoinThrows(model, selection) ==
  /\ selection.kind = "tree"
  /\ \E r \in Range(Meta[model].relations) :
       /\ HasChild(selection, r.propertyName)
       /\ \/ r.target \notin RelationNames(model)
          \/ JoinThrows(r.target, Child(selection, r.target))

\* connection.getMetadata(model) throws for an entity without metadata, and a
\* join may throw; either makes the planning of the whole batch throw.
PlanThrows(batch) ==
  \E i \in 1..Len(batch) :
    \/ batch[i].entity \notin Registered
    \/ JoinThrows(batch[i].entity, batch[i].fields)

Projection(q) == select(q.entity, q.fields, <<>>)

----------------------------------------------------------------------------
\* The database: what getRawMany returns for the merged query
\*   FROM <entity> <key>_<Entity> LEFT JOIN <entity> <key> ON (<key>.f = :v ...)
\* built for every request of the batch: the cross product of the FROM
\* tables, each row extended by the rows the request's join matches, or by
\* NULLs when it matches none.

RowFields(model) == Range(Meta[model].columns) \cup RelationNames(model)
NullRow(model) == [f \in RowFields(model) |-> SqlNull]

Satisfies(row, where) == \A i \in 1..Len(where) : row[where[i][1]] = where[i][2]

RECURSIVE Filter(_, _)
Filter(rows, where) ==
  IF rows = <<>> THEN <<>>
  ELSE (IF Satisfies(Head(rows), where) THEN <<Head(rows)>> ELSE <<>>) \o Filter(Tail(rows), where)

Matches(q) == Filter(db[q.entity], q.where)

JoinRows(q) == IF Matches(q) = <<>> THEN <<NullRow(q.entity)>> ELSE Matches(q)

\* The value of the column at `path` for a row of `model`; a relation segment
\* follows the LEFT JOIN to the related row.
RECURSIVE PathValue(_, _, _)
PathValue(model, row, path) ==
  IF Len(path) = 1
  THEN row[path[1]]
  ELSE LET target == Relation(model, path[1]).inverse
           joined == Filter(db[target], << <<"id", row[path[1]]>> >>)
       IN  PathValue(target, IF joined = <<>> THEN NullRow(target) ELSE joined[1], Tail(path))

RawKey(alias, path) == [alias |-> alias, path |-> path]

\* The raw columns one request contributes to a raw row.
KeyedRow(q, row) ==
  [k \in {RawKey(q.key, p) : p \in Projection(q)} |-> PathValue(q.entity, row, k.path)]

Merge(f, g) == [k \in DOMAIN f \cup DOMAIN g |-> IF k \in DOMAIN f THEN f[k] ELSE g[k]]

\* One request's FROM table times its join rows, as keyed rows.
Parts(q) ==
  LET j == JoinRows(q)
      n == Len(db[q.entity]) * Len(j)
  IN  [k \in 1..n |-> KeyedRow(q, j[((k - 1) % Len(j)) + 1])]

RECURSIVE Raw(_, _)
Raw(batch, i) ==
  IF i > Len(batch) THEN << <<>> >>
  ELSE LET parts == Parts(batch[i])
           rest == Raw(batch, i + 1)
           n == Len(parts) * Len(rest)
       IN  [k \in 1..n |-> Merge(parts[((k - 1) \div Len(rest)) + 1], rest[((k - 1) % Len(rest)) + 1])]

\* Two requests of one batch with the same key give the merged query two
\* tables with the same alias; the database rejects such a query.
DupAlias(batch) == \E i, j \in 1..Len(batch) : i # j /\ batch[i].key = batch[j].key

----------------------------------------------------------------------------
\* The demultiplexer (loader.ts, entityRawToObject and createEntityFromRaw).

\* object-path's set(obj, 'a.b', v) for every key of the flat map m.
RECURSIVE Nest(_)
Nest(m) ==
  [n \in {p[1] : p \in DOMAIN m} |->
     IF <<n>> \in DOMAIN m
     THEN m[<<n>>]
     ELSE Nest([p \in {Tail(x) : x \in {y \in DOMAIN m : y[1] = n}} |-> m[<<n>> \o p]])]

NoObject == [null |-> TRUE, obj |-> <<>>]

\* entityRawToObject(raw, alias): null when every value under the alias is
\* null (also when there is none), else the nested plain object.
entityRawToObject(raw, alias) ==
  LET paths == {k.path : k \in {x \in DOMAIN raw : x.alias = alias}}
      entityRaw == [p \in paths |-> raw[RawKey(alias, p)]]
  IN  IF \A p \in paths : entityRaw[p] = SqlNull
      THEN NoObject
      ELSE [null |-> FALSE, obj |-> Nest(entityRaw)]

\* createEntityFromRaw(entity, value): the entity the returned promise
\* fulfils with.
RECURSIVE createEntityFromRaw(_, _)
createEntityFromRaw(entity, value) ==
  LET cols == Range(Meta[entity].columns) \cap DOMAIN value
      rels == RelationNames(entity) \cap DOMAIN value
  IN  Entity(entity,
             [n \in cols \cup rels |->
                IF n \in rels
                THEN createEntityFromRaw(Relation(entity, n).inverse, value[n])
                ELSE value[n]])

\* deepEqual(r, entity) of line 187 compares two promises (createEntityFromRaw
\* is async and is not awaited): objects with no own enumerable keys and the
\* same prototype, which deep-equal finds equal.
deepEqual(a, b) == TRUE

\* The results array of a loadMany request after raw rows i..Len(raw).
RECURSIVE ManyResults(_, _, _, _)
ManyResults(raw, q, i, results) ==
  IF i > Len(raw) THEN results
  ELSE LET o == entityRawToObject(raw[i], q.key) IN
       IF o.null
       THEN ManyResults(raw, q, i + 1, results)
       ELSE LET entity == createEntityFromRaw(q.entity, o.obj) IN
            IF \E j \in 1..Len(results) : deepEqual(results[j], entity)
            THEN ManyResults(raw, q, i + 1, results)
            ELSE ManyResults(raw, q, i + 1, Append(results, entity))

\* raw.find(r => !!Object.keys(r).find(k => k.startsWith(q.key))): the index
\* of the first such row, 0 when there is none (container is undefined).
Container(raw, key) ==
  IF \E i \in 1..Len(raw) : \E k \in DOMAIN raw[i] : k.alias = key
  THEN CHOOSE i \in 1..Len(raw) :
         /\ \E k \in DOMAIN raw[i] : k.alias = key
         /\ \A j \in 1..(i - 1) : ~ \E k \in DOMAIN raw[j] : k.alias = key
  ELSE 0

----------------------------------------------------------------------------
\* Promises.  resolve and reject act on a pending promise only; a promise
\* resolved with another promise is locked in ("locked") until that one
\* settles.

Settled(p) == p.st \in {"fulfilled", "rejected"}

Resolve(P, pid, v) ==
  IF P[pid].st = "pending" THEN [P EXCEPT ![pid] = [st |-> "fulfilled", val |-> v]] ELSE P

LockIn(P, pid) ==
  IF P[pid].st = "pending" THEN [P EXCEPT ![pid] = [st |-> "locked", val |-> Undefined]] ELSE P

Reject(P, pid, e) ==
  IF P[pid].st = "pending" THEN [P EXCEPT ![pid] = [st |-> "rejected", val |-> e]] ELSE P

\* The catch block of processAll: queue.forEach(q => { q.reject(e);
\* this._cache.delete(q.key) }) from request i on.
RECURSIVE RejectAll(_, _, _, _)
RejectAll(S, batch, e, i) ==
  IF i > Len(batch) THEN S
  ELSE RejectAll([S EXCEPT !.promises = Reject(S.promises, batch[i].pid, e),
                           !.cache = CacheDelete(S.cache, batch[i].key)],
                 batch, e, i + 1)

\* The second queue.forEach of processAll from request i on; S.thrown is set
\* when a callback throws, which ends the loop.
RECURSIVE Demux(_, _, _, _)
Demux(S, batch, raw, i) ==
  IF i > Len(batch) THEN S
  ELSE LET q == batch[i] IN
    IF raw = <<>>
    THEN Demux([S EXCEPT !.promises = Resolve(S.promises, q.pid, Undefined)], batch, raw, i + 1)
    ELSE IF ~q.many
    THEN LET c == Container(raw, q.key) IN
         IF c = 0
         THEN [S EXCEPT !.thrown = TRUE]
         ELSE LET o == entityRawToObject(raw[c], q.key) IN
              IF o.null
              THEN Demux([S EXCEPT !.promises = Resolve(S.promises, q.pid, Undefined)],
                         batch, raw, i + 1)
              ELSE Demux([S EXCEPT !.microtasks =
                            S.microtasks \cup {[pid |-> q.pid, val |-> createEntityFromRaw(q.entity, o.obj)]}],
                         batch, raw, i + 1)
    ELSE LET results == ManyResults(raw, q, 1, <<>>) IN
         Demux([S EXCEPT
                  !.promises = IF results = <<>>
                               THEN Resolve(S.promises, q.pid, List(<<>>))
                               ELSE LockIn(S.promises, q.pid),
                  !.microtasks = IF results = <<>> THEN S.microtasks
                                 ELSE S.microtasks \cup {[pid |-> q.pid, val |-> List(results)]},
                  !.cache = CacheDelete(S.cache, q.key)],
               batch, raw, i + 1)

\* processAll after `await qb.getRawMany()` returned raw: the try block's
\* second loop and, when it throws, the catch block.
ProcessRaw(S, batch, raw) ==
  LET T == Demux(S, batch, raw, 1) IN
  IF T.thrown THEN RejectAll(T, batch, Error("TypeError"), 1) ELSE T

Continuation == [promises |-> promises, microtasks |-> microtasks, cache |-> cache, thrown |-> FALSE]

\* Mutant of Captured: splice(0, 1), only the oldest request is captured.
CapturedHead(q) == IF q = <<>> THEN q ELSE <<Head(q)>>

\* Mutant of Remaining: the splice leaves every request but the oldest queued.
RemainingTail(q) == IF q = <<>> THEN q ELSE Tail(q)

\* this._queue.splice(0, this._queue.length): the captured batch, and what
\* is left in the queue.
Captured(q) == q
Remaining(q) == <<>>

\* The setImmediate callback with handle h runs processAll up to the await.
Flush(h) ==
  /\ h \in armed
  /\ microtasks = {}
  /\ armed' = armed \ {h}
  /\ queue' = Remaining(queue)
  /\ LET batch == Captured(queue) IN
     IF PlanThrows(batch)
     THEN LET T == RejectAll(Continuation, batch, Error("PlanError"), 1) IN
          /\ promises' = T.promises
          /\ cache' = T.cache
          /\ UNCHANGED inflight
     ELSE /\ inflight' = inflight \cup {batch}
          /\ UNCHANGED <<promises, cache>>
  /\ sinceClear' = {}
  /\ cleared' = FALSE
  /\ UNCHANGED <<immediate, microtasks, db, batchCalls, plan, flat>>

\* getRawMany of a suspended processAll returns (ok) or fails, and processAll
\* runs to its end.
Resume(batch, ok) ==
  /\ batch \in inflight
  /\ microtasks = {}
  /\ ok => ~DupAlias(batch)
  /\ inflight' = inflight \ {batch}
  /\ LET T == IF ok THEN ProcessRaw(Continuation, batch, Raw(batch, 1))
              ELSE RejectAll(Continuation, batch, Error("QueryFailedError"), 1) IN
     /\ promises' = T.promises
     /\ microtasks' = T.microtasks
     /\ cache' = T.cache
  /\ cleared' = FALSE
  /\ UNCHANGED <<queue, immediate, armed, db, batchCalls, sinceClear, plan, flat>>

\* A promise reaction runs: the hydrated entity (or the Promise.all of the
\* hydrated entities) settles the request's promise, unless it was rejected
\* in the meantime.
Settle(m) ==
  /\ m \in microtasks
  /\ microtasks' = microtasks \ {m}
  /\ promises' = IF promises[m.pid].st \in {"pending", "locked"}
                 THEN [promises EXCEPT ![m.pid] = [st |-> "fulfilled", val |-> m.val]]
                 ELSE promises
  /\ cleared' = FALSE
  /\ UNCHANGED <<queue, cache, immediate, armed, inflight, db, batchCalls, sinceClear, plan, flat>>

BatchConditions == UNION {[1..n -> Conditions] : n \in 1..MaxBatchLen}

LoadOneCall == \E c \in Calls : LoadOne(c.entity, c.where, c.fields)
LoadManyCall == \E c \in Calls : LoadMany(c.entity, c.where, c.fields)
BatchLoadManyCall == \E ws \in BatchConditions : BatchLoadMany("Post", ws, NullSelection)
FlushFires == \E h \in armed : Flush(h)
QueryReturns == \E b \in inflight, ok \in BOOLEAN : Resume(b, ok)
ReactionRuns == \E m \in microtasks : Settle(m)

Next ==
  \/ LoadOneCall
  \/ LoadManyCall
  \/ Clear
  \/ FlushFires
  \/ QueryReturns
  \/ ReactionRuns

Spec == Init /\ [][Next]_vars

\* The event loop runs every armed immediate, the database answers every
\* query (with rows or with an error), and promise reactions always run.
Fairness ==
  /\ WF_vars(FlushFires)
  /\ WF_vars(QueryReturns)
  /\ WF_vars(ReactionRuns)

LiveSpec == Spec /\ Fairness

\* The loader with batchLoadMany among its operations.
BatchNext ==
  \/ BatchLoadManyCall
  \/ LoadOneCall
  \/ FlushFires
  \/ QueryReturns
  \/ ReactionRuns

BatchSpec == Init /\ [][BatchNext]_vars

----------------------------------------------------------------------------
\* Steps, recognised by their effect.

\* A processAll run resumes after its query: its batch leaves inflight.
ResumeStep == inflight' # inflight /\ inflight' \subseteq inflight
ResumedBatch == CHOOSE b \in inflight : b \notin inflight'

\* A setImmediate callback runs: its handle leaves armed and none is added.
FlushStep == armed' # armed /\ armed' \subseteq armed

----------------------------------------------------------------------------
\* C1: single-flight.  While a request is in the pending queue and clear()
\* has not been called since it was enqueued, a call with the same entity,
\* condition, selection and kind (one/many) is a cache hit that returns that
\* request's future, so it appends nothing.
C1_SingleFlight ==
  \A i \in 1..Len(queue) :
    queue[i].pid \in sinceClear =>
      LET q == queue[i]
          r == Load(Loader, q.entity, q.where, q.fields, q.many)
      IN  r.hit /\ r.ret = q.pid /\ r.L.queue = queue

\* C3: a call for another entity type with the same condition and selection
\* as a queued loadOne never receives that request's future.
C3_EntityInFingerprint ==
  \A i \in 1..Len(queue) : \A c \in Calls :
    ( /\ ~queue[i].many
      /\ c.entity # queue[i].entity
      /\ c.where = queue[i].where
      /\ c.fields = queue[i].fields )
    => Load(Loader, c.entity, c.where, c.fields, FALSE).ret # queue[i].pid

\* C5: eviction on settlement.  When processAll resumes and settles a request
\* of its batch, the cache holds no entry for that request's key afterwards.
C5_EvictionOnSettlement ==
  [][ResumeStep =>
       \A i \in 1..Len(ResumedBatch) :
         Settled(promises'[ResumedBatch[i].pid]) => ~CacheHas(cache', ResumedBatch[i].key)]_vars

\* C6: batch failure atomicity.  When a processAll run rejects a request of
\* its batch, it rejects every request of the batch, with the same error.
C6_BatchFailureAtomicity ==
  [][ResumeStep =>
       LET b == ResumedBatch
           rejectedNow(i) == promises[b[i].pid].st = "pending" /\ promises'[b[i].pid].st = "rejected"
       IN  (\E i \in 1..Len(b) : rejectedNow(i)) =>
             \A i, j \in 1..Len(b) : rejectedNow(i) /\ promises'[b[i].pid] = promises'[b[j].pid]]_vars

\* C7: absence semantics.  In a processAll run that rejects nothing, a
\* loadOne whose condition matches no row is resolved with undefined and a
\* loadMany whose condition matches no row is resolved with the empty list.
C7_AbsenceSemantics ==
  [][ResumeStep =>
       LET b == ResumedBatch IN
       (\A i \in 1..Len(b) : promises'[b[i].pid].st # "rejected") =>
         \A i \in 1..Len(b) :
           Matches(b[i]) = <<>> =>
             promises'[b[i].pid] =
               [st |-> "fulfilled", val |-> IF b[i].many THEN List(<<>>) ELSE Undefined]]_vars

----------------------------------------------------------------------------
\* Promise.all over the element futures of a batchLoadMany call.
PromiseAllState(P, rets) ==
  IF \E i \in 1..Len(rets) : P[rets[i]].st = "rejected" THEN "rejected"
  ELSE IF \A i \in 1..Len(rets) : P[rets[i]].st = "fulfilled" THEN "fulfilled"
  ELSE "pending"

PromiseAllValue(P, rets) == List([i \in 1..Len(rets) |-> P[rets[i]].val])

\* An enqueue: loadOne or loadMany created a promise.
EnqueueStep == Len(promises') > Len(promises)

\* C2: coalescing.  Every enqueue appends to the queue and leaves exactly one
\* flush armed, and the flush captures the whole queue in one processAll run
\* that starts at most one query (none when planning throws).
C2_Coalescing ==
  [][ /\ EnqueueStep =>
           /\ Len(queue') > Len(queue)
           /\ SubSeq(queue', 1, Len(queue)) = queue
           /\ armed' = {immediate'}
      /\ FlushStep =>
           /\ queue' = <<>>
           /\ \/ inflight' = inflight \cup {queue} /\ queue \notin inflight
              \/ inflight' = inflight /\ PlanThrows(queue) ]_vars

C2_Witness ==
  \E b \in inflight :
    /\ inflight = {b}
    /\ Len(b) = MaxRequests
    /\ \E i, j \in 1..Len(b) : ~b[i].many /\ b[j].many
    /\ \A i, j \in 1..Len(b) : i # j => b[i].key # b[j].key

\* C4: batchLoadMany returns one future per condition, in the order of the
\* conditions, and the i-th is the future loadOne(entity, wheres[i]) returns.
C4_BatchFanOut ==
  [][batchCalls' # batchCalls =>
       LET b == CHOOSE x \in batchCalls' : x \notin batchCalls IN
       /\ Len(b.rets) = Len(b.wheres)
       /\ \A i \in 1..Len(b.wheres) :
            LET r == Load(Loader', b.entity, b.wheres[i], b.fields, FALSE)
            IN  r.hit /\ r.ret = b.rets[i]]_vars

C4_Witness ==
  \E b \in batchCalls :
    /\ b.wheres = <<ById("3"), ById("1")>>
    /\ PromiseAllState(promises, b.rets) = "fulfilled"
    /\ PromiseAllValue(promises, b.rets).items[1] = Undefined
    /\ PromiseAllValue(promises, b.rets).items[2] =
         Entity("Post", [id |-> "1", title |-> "a", owner |-> Entity("User", User1)])

\* C8: a request is never dropped (while unsettled it is in the queue, in a
\* batch awaiting its query, or about to be settled by a promise reaction),
\* a settled promise never changes, and every request eventually settles.
Held(p) ==
  \/ \E i \in 1..Len(queue) : queue[i].pid = p
  \/ \E b \in inflight : \E i \in 1..Len(b) : b[i].pid = p
  \/ \E m \in microtasks : m.pid = p

C8_EverySettles ==
  /\ [](\A p \in 1..Len(promises) : ~Settled(promises[p]) => Held(p))
  /\ [][\A p \in 1..Len(promises) : Settled(promises[p]) => promises'[p] = promises[p]]_vars
  /\ \A p \in 1..MaxRequests :
       (Len(promises) >= p) ~> (Len(promises) >= p /\ Settled(promises[p]))

C8_Witness ==
  /\ Len(promises) = MaxRequests
  /\ \A p \in 1..Len(promises) : Settled(promises[p])
  /\ \E p, r \in 1..Len(promises) : promises[p].st = "fulfilled" /\ promises[r].st = "rejected"

\* C9: right after clear() the cache is empty, and a loadOne, whatever was
\* requested before, is a miss: it returns a new future, appends a new
\* request to the queue and arms the flush.
C9_ClearInvalidates ==
  cleared =>
    /\ cache = {}
    /\ \A c \in Calls :
         LET r == Load(Loader, c.entity, c.where, c.fields, FALSE)
             pid == Len(promises) + 1
         IN  /\ ~r.hit
             /\ r.ret = pid
             /\ r.L.queue = Append(queue, Request(FALSE, Key(c.where, c.fields), c.where,
                                                  c.fields, c.entity, pid))
             /\ pid \in r.L.armed

C9_Witness ==
  /\ cleared
  /\ \E i \in 1..Len(queue) : queue[i].entity = "Post" /\ queue[i].where = ById("1")
  /\ \E p \in 1..Len(promises) : promises[p].st = "fulfilled"

\* C10: clear() changes the cache only; what a processAll run makes of a
\* batch it has captured does not depend on the cache; and a request that was
\* queued when clear() was called settles as it does without the clear(): the
\* batch that carries it holds no second request with its key, so that its
\* merged query is the one built without the clear() and can return its rows.
C10_ClearFrame ==
  /\ [][cleared' => UNCHANGED <<queue, immediate, armed, inflight, promises, microtasks, db>>]_vars
  /\ [][ResumeStep =>
          LET emptied == [Continuation EXCEPT !.cache = {}]
              b == ResumedBatch
              T == ProcessRaw(emptied, b, Raw(b, 1))
              F == RejectAll(emptied, b, Error("QueryFailedError"), 1)
          IN  \/ promises' = T.promises /\ microtasks' = T.microtasks
              \/ promises' = F.promises /\ microtasks' = F.microtasks]_vars
  /\ [](\A b \in inflight : ~DupAlias(b))

----------------------------------------------------------------------------
\* A processAll run fails in this step: it rejects a request of its batch,
\* while planning (the batch is the queue) or after the query.
FailedBatch == IF ResumeStep THEN ResumedBatch ELSE queue
FailureStep ==
  /\ ResumeStep \/ FlushStep
  /\ \E i \in 1..Len(FailedBatch) :
       promises[FailedBatch[i].pid].st = "pending" /\ promises'[FailedBatch[i].pid].st = "rejected"

\* C11: failure isolation.  When a processAll run fails, every cache entry it
\* removes stores the future of a request of the failed batch, and afterwards
\* no request of the failed batch is cached, so that an identical call is
\* enqueued anew.
C11_FailureIsolation ==
  [][FailureStep =>
       /\ \A e \in cache \ cache' : \E i \in 1..Len(FailedBatch) : FailedBatch[i].pid = e.pid
       /\ \A i \in 1..Len(FailedBatch) :
            LET q == FailedBatch[i]
                r == Load(Loader', q.entity, q.where, q.fields, q.many)
            IN  ~r.hit /\ r.ret = Len(promises') + 1]_vars

\* C17: queue capture.  The pending queue holds exactly the requests created
\* since the previous capture, in the order of their creation; a processAll
\* run captures the whole queue and leaves it empty; a captured batch holds
\* only requests older than the queued ones, and an enqueue never changes a
\* captured batch but arms a flush for the queue.
C17_QueueCapture ==
  /\ [](\A i \in 1..Len(queue) : queue[i].pid = Len(promises) - Len(queue) + i)
  /\ [](\A b \in inflight : \A i \in 1..Len(b) : b[i].pid <= Len(promises) - Len(queue))
  /\ [][FlushStep => queue' = <<>> /\ (inflight' = inflight \/ inflight' = inflight \cup {queue})]_vars
  /\ [][EnqueueStep => inflight' = inflight /\ armed' # {}]_vars

C17_Witness ==
  /\ \E b \in inflight : Len(b) = 2
  /\ Len(queue) = 1
  /\ armed = {queue[1].pid}

\* C18: single-slot debounce.  At most one deferred flush is armed, and it is
\* the one this._immediate names; an enqueue cancels it and arms a new one;
\* when it runs none is left armed, so the enqueues since the previous flush
\* are served by that one processAll run.
C18_SingleSlot ==
  /\ [](Cardinality(armed) <= 1 /\ armed \subseteq {immediate})
  /\ [][EnqueueStep => immediate' \notin armed /\ armed' = {immediate'}]_vars
  /\ [][FlushStep => armed = {immediate} /\ armed' = {}]_vars

C18_Witness ==
  /\ Len(queue) = MaxRequests
  /\ armed = {MaxRequests}
  /\ inflight = {}

----------------------------------------------------------------------------
\* The loader called with conditions and selections that hold the same
\* entries in different key order ({id: 1, title: "a"} and {title: "a",
\* id: 1}; the fields id, title and title, id).

ByIdTitle == << <<"id", "1">>, <<"title", "a">> >>
ByTitleId == << <<"title", "a">>, <<"id", "1">> >>

ReorderedCalls ==
  { [entity |-> "Post", where |-> ByIdTitle, fields |-> Tree(<<"id", "title">>)],
    [entity |-> "Post", where |-> ByTitleId, fields |-> Tree(<<"id", "title">>)],
    [entity |-> "Post", where |-> ByIdTitle, fields |-> Tree(<<"title", "id">>)],
    [entity |-> "Post", where |-> ById("3"), fields |-> NullSelection] }

LoadOneReordered == \E c \in ReorderedCalls : LoadOne(c.entity, c.where, c.fields)
LoadManyReordered == \E c \in ReorderedCalls : LoadMany(c.entity, c.where, c.fields)

KeyOrderNext ==
  \/ LoadOneReordered
  \/ LoadManyReordered
  \/ FlushFires
  \/ QueryReturns
  \/ ReactionRuns

KeyOrderSpec == Init /\ [][KeyOrderNext]_vars

\* Two objects with the same entries, whatever the order of their keys.
SameObject(a, b) == Len(a) = Len(b) /\ Range(a) = Range(b)

RECURSIVE SameSelection(_, _)
SameSelection(a, b) ==
  /\ a.kind = b.kind
  /\ Len(a.children) = Len(b.children)
  /\ \A i \in 1..Len(a.children) :
       /\ HasChild(b, a.children[i][1])
       /\ SameSelection(a.children[i][2], Child(b, a.children[i][1]))

\* C16: fingerprint canonicality.  While a request is queued, a call of the
\* same kind for the same entity whose condition and selection hold the same
\* entries, in whatever key order, is a cache hit on that request's future
\* and enqueues nothing.
C16_KeyCanonical ==
  \A i \in 1..Len(queue) : \A c \in ReorderedCalls :
    LET q == queue[i]
        r == Load(Loader, c.entity, c.where, c.fields, q.many)
    IN  (c.entity = q.entity /\ SameObject(c.where, q.where) /\ SameSelection(c.fields, q.fields))
          => r.hit /\ r.ret = q.pid /\ r.L.queue = queue

----------------------------------------------------------------------------
\* The value at a path of a nested plain object.
RECURSIVE At(_, _)
At(obj, path) == IF Len(path) = 1 THEN obj[path[1]] ELSE At(obj[path[1]], Tail(path))

\* The query of the resumed batch failed: a pending request of the batch is
\* rejected with the error of the database.
QueryFailed ==
  \E i \in 1..Len(ResumedBatch) :
    /\ promises[ResumedBatch[i].pid].st = "pending"
    /\ promises'[ResumedBatch[i].pid] = [st |-> "rejected", val |-> Error("QueryFailedError")]

\* C20: all-null filter.  For every raw row of a query and every request of
\* its batch, entityRawToObject gives null exactly when every value under a
\* column of the request's alias is null (also when there is no such column),
\* and otherwise an object holding each such value at its path; and when the
\* query returned rows, a loadOne resolves to undefined exactly when its row
\* gives null, and a loadMany resolves to the empty list exactly when every
\* row gives null.
C20_AllNullFilter ==
  /\ [](\A b \in inflight :
          LET raw == Raw(b, 1) IN
          \A k \in 1..Len(raw) : \A i \in 1..Len(b) :
            LET o == entityRawToObject(raw[k], b[i].key)
                under == {c \in DOMAIN raw[k] : c.alias = b[i].key}
            IN  /\ o.null <=> \A c \in under : raw[k][c] = SqlNull
                /\ ~o.null => \A c \in under : At(o.obj, c.path) = raw[k][c])
  /\ [][(ResumeStep /\ ~QueryFailed /\ Raw(ResumedBatch, 1) # <<>>) =>
          LET b == ResumedBatch
              raw == Raw(b, 1)
          IN  \A i \in 1..Len(b) :
                IF b[i].many
                THEN (\A k \in 1..Len(raw) : entityRawToObject(raw[k], b[i].key).null)
                       <=> promises'[b[i].pid] = [st |-> "fulfilled", val |-> List(<<>>)]
                ELSE entityRawToObject(raw[1], b[i].key).null
                       <=> promises'[b[i].pid] = [st |-> "fulfilled", val |-> Undefined]]_vars

----------------------------------------------------------------------------
\* The loader over a database in which two posts have the same owner, called
\* with conditions that match both.

Post3 == [id |-> "3", title |-> "c", owner |-> "1"]

ByOwner(v) == << <<"owner", v>> >>

ManyInit ==
  /\ queue = <<>>
  /\ cache = {}
  /\ immediate = 0
  /\ armed = {}
  /\ inflight = {}
  /\ promises = <<>>
  /\ microtasks = {}
  /\ db = [Post |-> <<Post1, Post3>>, User |-> <<User1>>]
  /\ batchCalls = {}
  /\ sinceClear = {}
  /\ cleared = FALSE
  /\ plan = NoPlan
  /\ flat = NoFlat

ManyCalls ==
  { [entity |-> "Post", where |-> ByOwner("1"), fields |-> NullSelection],
    [entity |-> "Post", where |-> ByOwner("1"), fields |-> Tree(<<"title">>)],
    [entity |-> "Post", where |-> ById("1"), fields |-> NullSelection],
    [entity |-> "User", where |-> ById("3"), fields |-> NullSelection] }

LoadManyOwned == \E c \in ManyCalls : LoadMany(c.entity, c.where, c.fields)

ManyNext ==
  \/ LoadManyOwned
  \/ FlushFires
  \/ QueryReturns
  \/ ReactionRuns

ManySpec == ManyInit /\ [][ManyNext]_vars

\* The entities of the rows that give an object for the request, in row order.
RECURSIVE RowEntities(_, _, _)
RowEntities(raw, q, i) ==
  IF i > Len(raw) THEN <<>>
  ELSE LET o == entityRawToObject(raw[i], q.key) IN
       (IF o.null THEN <<>> ELSE <<createEntityFromRaw(q.entity, o.obj)>>)
         \o RowEntities(raw, q, i + 1)

\* A sequence without its repetitions, each element at its first occurrence.
RECURSIVE Distinct(_)
Distinct(seq) ==
  IF seq = <<>> THEN <<>>
  ELSE LET front == Distinct(SubSeq(seq, 1, Len(seq) - 1))
           last == seq[Len(seq)]
       IN  IF \E j \in 1..Len(front) : front[j] = last THEN front ELSE Append(front, last)

\* C13: deduplication.  When the query returned rows, a loadMany request
\* resolves to the structurally distinct entities of its matching rows, each
\* once, in first-seen row order.
C13_Deduplication ==
  [][(ResumeStep /\ ~QueryFailed /\ Raw(ResumedBatch, 1) # <<>>) =>
       LET b == ResumedBatch
           raw == Raw(b, 1)
       IN  \A i \in 1..Len(b) :
             b[i].many =>
               LET expected == Distinct(RowEntities(raw, b[i], 1)) IN
               IF expected = <<>>
               THEN promises'[b[i].pid] = [st |-> "fulfilled", val |-> List(<<>>)]
               ELSE [pid |-> b[i].pid, val |-> List(expected)] \in microtasks']_vars

----------------------------------------------------------------------------
\* The planner select() followed call by call, in its two versions: the one
\* loader.ts imports (src/src/select.ts) and the one with the history set
\* (src/unnamed/part_003).  A frame of the stack is one activation of select:
\* its model, selection and alias, the index of the relation its forEach
\* handles next (0 before the columns are handled), and the relation it was
\* entered through.  An alias is the sequence of the names appended to the
\* alias of the root call.

MaxDepth == 5

Rel(propertyName, target, inverse, inverseRelation) ==
  [propertyName |-> propertyName, target |-> target, inverse |-> inverse,
   inverseRelation |-> inverseRelation]

\* Entity metadata for the planner: relation.target is the entity that
\* declares the relation, inverse the entity it points to
\* (inverseEntityMetadata), inverseRelation the property of the relation's
\* inverse side, "" when it has none.  Post and User are related in both
\* directions, Node is related to itself in both directions, X, Y and Z form
\* a cycle of relations with both directions, and Comment has a relation
\* without inverse side.
PlanMeta ==
  [Post    |-> [columns |-> <<"id", "title">>,
                relations |-> <<Rel("owner", "Post", "User", "posts")>>],
   User    |-> [columns |-> <<"id", "email">>,
                relations |-> <<Rel("posts", "User", "Post", "owner")>>],
   Node    |-> [columns |-> <<"id">>,
                relations |-> <<Rel("parent", "Node", "Node", "children"),
                                Rel("children", "Node", "Node", "parent")>>],
   X       |-> [columns |-> <<"id">>,
                relations |-> <<Rel("y", "X", "Y", "x"), Rel("z", "X", "Z", "x")>>],
   Y       |-> [columns |-> <<"id">>,
                relations |-> <<Rel("x", "Y", "X", "y"), Rel("z", "Y", "Z", "y")>>],
   Z       |-> [columns |-> <<"id">>,
                relations |-> <<Rel("y", "Z", "Y", "z"), Rel("x", "Z", "X", "z")>>],
   Comment |-> [columns |-> <<"id">>,
                relations |-> <<Rel("post", "Comment", "Post", "")>>]]

Versions == {"select.ts", "part_003"}

\* Object.keys(selection.children)
Keys(selection) == {selection.children[i][1] : i \in 1..Len(selection.children)}

\* The selections the planner is called with: none, or a tree over some
\* fields, each with no subfields or with the subfield id.
SubSelections == {Leaf, Tree(<<"id">>)}
TreeOver(names) ==
  {[kind |-> "tree", children |-> [i \in 1..Len(names) |-> <<names[i], subs[i]>>]] :
     subs \in [1..Len(names) -> SubSelections]}
NameLists ==
  { <<"id">>, <<"id", "owner">>, <<"posts", "id">>, <<"parent", "children">>,
    <<"id", "parent">>, <<"y", "z">>, <<"kind">>, <<"post">> }
PlanSelections == {NullSelection} \cup UNION {TreeOver(n) : n \in NameLists}

Frame(model, selection, alias, via) ==
  [model |-> model, selection |-> selection, alias |-> alias, next |-> 0, via |-> via]

\* select(model, selection, connection, qb, alias) is called on a new query
\* builder.
PlanStart(version, model, selection) ==
  [version |-> version, model |-> model, selection |-> selection,
   stack |-> <<Frame(model, selection, <<>>, <<>>)>>,
   selects |-> <<>>, joins |-> <<>>, froms |-> <<>>, history |-> {}, thrown |-> FALSE]

loaderVars ==
  <<queue, cache, immediate, armed, inflight, promises, microtasks, db, batchCalls,
    sinceClear, cleared>>

PlanInit ==
  /\ queue = <<>>
  /\ cache = {}
  /\ immediate = 0
  /\ armed = {}
  /\ inflight = {}
  /\ promises = <<>>
  /\ microtasks = {}
  /\ db = [Post |-> <<Post1, Post2>>, User |-> <<User1>>]
  /\ batchCalls = {}
  /\ sinceClear = {}
  /\ cleared = FALSE
  /\ plan \in {PlanStart(v, m, sel) : v \in Versions, m \in DOMAIN PlanMeta, sel \in PlanSelections}
  /\ flat = NoFlat

Top == plan.stack[Len(plan.stack)]
Running == plan.stack # <<>> /\ ~plan.thrown
WithTop(f) == [plan.stack EXCEPT ![Len(plan.stack)] = f]

\* Mutant of RequestedColumns: every column of the entity is projected.
AllColumns(model, selection) == PlanMeta[model].columns

\* meta.columns.filter(field => field.propertyName in selection.children)
RequestedColumns(model, selection) ==
  SelectSeq(PlanMeta[model].columns, LAMBDA c : HasChild(selection, c))

\* qb.addSelect(`${alias}.${field}`, `${alias}_${field}`) for each column.
Projections(alias, cols) ==
  [i \in 1..Len(cols) |->
     [expr |-> [alias |-> alias, column |-> cols[i]], as |-> alias \o <<cols[i]>>]]

\* qb.addSelect(alias): every column of the alias.
WholeAlias(alias) == [expr |-> [alias |-> alias, column |-> "*"], as |-> alias]

\* qb.leftJoin(alias + '.' + property, childAlias), added for relation r.
Join(alias, property, childAlias, r) ==
  [relation |-> <<r.target, r.propertyName>>,
   path |-> [alias |-> alias, property |-> property], as |-> childAlias]

\* The part of select before its relations.forEach.
SelectColumns ==
  /\ Running
  /\ Top.next = 0
  /\ LET f == Top IN
     plan' =
       IF f.selection.kind = "tree"
       THEN [plan EXCEPT
               !.selects = @ \o Projections(f.alias, RequestedColumns(f.model, f.selection)),
               !.stack = WithTop([f EXCEPT !.next = 1])]
       ELSE IF f.selection.kind = "null"
       THEN [plan EXCEPT
               !.selects = IF plan.version = "select.ts" THEN Append(@, WholeAlias(f.alias)) ELSE @,
               !.stack = WithTop([f EXCEPT !.next = 1])]
       ELSE [plan EXCEPT
               !.stack = WithTop([f EXCEPT !.next = Len(PlanMeta[f.model].relations) + 1])]
  /\ UNCHANGED <<loaderVars, flat>>

\* The plan after the callback of relations.forEach for relation r of the
\* top frame; a recursive call pushes its frame.
AfterRelation(f, r) ==
  LET advanced == WithTop([f EXCEPT !.next = @ + 1])
      skip == [plan EXCEPT !.stack = advanced]
      via == <<r.target, r.propertyName>>
  IN
  IF f.selection.kind = "tree"
  THEN IF ~HasChild(f.selection, r.propertyName) THEN skip
       ELSE LET name == r.target
                childAlias == f.alias \o <<name>>
            IN  IF plan.version = "select.ts"
                THEN IF \A x \in Range(PlanMeta[f.model].relations) : x.propertyName # name
                     THEN [plan EXCEPT !.thrown = TRUE]
                     ELSE [plan EXCEPT
                             !.joins = Append(@, Join(f.alias, name, childAlias, r)),
                             !.stack = Append(advanced,
                                              Frame(r.target, Child(f.selection, name), childAlias, via))]
                ELSE IF r.inverseRelation = "" THEN skip
                     ELSE [plan EXCEPT
                             !.froms = Append(@, r.inverse),
                             !.joins = Append(@, Join(f.alias, r.propertyName, childAlias, r)),
                             !.stack = Append(advanced,
                                              Frame(r.inverse, Child(f.selection, r.propertyName),
                                                    childAlias, via))]
  ELSE LET childAlias == f.alias \o <<r.propertyName>> IN
       IF plan.version = "select.ts"
       THEN [plan EXCEPT
               !.joins = Append(@, Join(f.alias, r.propertyName, childAlias, r)),
               !.stack = Append(advanced, Frame(r.inverse, NullSelection, childAlias, via))]
       ELSE IF r.inverseRelation = ""
            THEN [plan EXCEPT
                    !.selects = Append(@, [expr |-> [alias |-> f.alias, column |-> r.propertyName],
                                           as |-> childAlias]),
                    !.stack = advanced]
            ELSE IF <<r.inverse, r.inverseRelation>> \in plan.history
                 THEN [plan EXCEPT !.selects = Append(@, WholeAlias(f.alias)), !.stack = advanced]
                 ELSE [plan EXCEPT
                         !.history = @ \cup {via},
                         !.froms = Append(@, r.inverse),
                         !.joins = Append(@, Join(f.alias, r.propertyName, childAlias, r)),
                         !.stack = Append(advanced, Frame(r.inverse, NullSelection, childAlias, via))]

\* One callback of relations.forEach; the recursion is followed up to
\* MaxDepth activations.
SelectRelation ==
  /\ Running
  /\ Top.next \in 1..Len(PlanMeta[Top.model].relations)
  /\ LET p == AfterRelation(Top, PlanMeta[Top.model].relations[Top.next]) IN
     /\ Len(p.stack) <= MaxDepth
     /\ plan' = p
  /\ UNCHANGED <<loaderVars, flat>>

\* `return qb`: the activation ends.
SelectReturn ==
  /\ Running
  /\ Top.next > Len(PlanMeta[Top.model].relations)
  /\ plan' = [plan EXCEPT !.stack = SubSeq(@, 1, Len(@) - 1)]
  /\ UNCHANGED <<loaderVars, flat>>

PlanNext ==
  \/ SelectColumns
  \/ SelectRelation
  \/ SelectReturn

PlanSpec == PlanInit /\ [][PlanNext]_vars

\* C12: planning with no selection terminates: along the recursion path, the
\* activations on the stack were entered through pairwise different
\* relations, so the depth of the recursion is bounded by the number of
\* relations.
C12_PlanningTerminates ==
  plan.selection.kind = "null" =>
    \A i, j \in 2..Len(plan.stack) : i < j => plan.stack[i].via # plan.stack[j].via

\* C15: projection minimality.  In an activation with a selection that is
\* not null, every projection added is for a column of the entity that is a
\* key of selection.children, under the activation's alias, and every join
\* added is for a relation of the entity that is a key of selection.children.
C15_ProjectionMinimal ==
  [][(Running /\ Top.selection.kind # "null") =>
       LET f == Top
           newSelects == SubSeq(plan'.selects, Len(plan.selects) + 1, Len(plan'.selects))
           newJoins == SubSeq(plan'.joins, Len(plan.joins) + 1, Len(plan'.joins))
       IN  /\ \A i \in 1..Len(newSelects) :
                /\ newSelects[i].expr.alias = f.alias
                /\ newSelects[i].expr.column \in Keys(f.selection)
                /\ newSelects[i].expr.column \in Range(PlanMeta[f.model].columns)
           /\ \A i \in 1..Len(newJoins) :
                /\ newJoins[i].relation[1] = f.model
                /\ newJoins[i].relation[2] \in Keys(f.selection)
                /\ newJoins[i].path.alias = f.alias]_vars

C15_Witness ==
  /\ plan.stack = <<>>
  /\ ~plan.thrown
  /\ plan.model = "Post"
  /\ Keys(plan.selection) = {"id", "owner"}
  /\ Len(plan.joins) = 1
  /\ {plan.selects[i].expr : i \in 1..Len(plan.selects)} =
       {[alias |-> <<>>, column |-> "id"], [alias |-> <<"Post">>, column |-> "id"]}

\* C19: alias uniqueness.  In one planning call no two joins are given the
\* same alias and no two different projections are given the same alias.
C19_AliasUnique ==
  /\ \A i, j \in 1..Len(plan.joins) : i # j => plan.joins[i].as # plan.joins[j].as
  /\ \A i, j \in 1..Len(plan.selects) :
       plan.selects[i].expr # plan.selects[j].expr => plan.selects[i].as # plan.selects[j].as

----------------------------------------------------------------------------
\* The loader called with selections that ask for fields of a relation
\* ({ id owner { email } }) or for columns only.

OwnerEmail == [kind |-> "tree", children |-> << <<"id", Leaf>>, <<"owner", Tree(<<"email">>)>> >>]

NestedCalls ==
  { [entity |-> "Post", where |-> ById("1"), fields |-> OwnerEmail],
    [entity |-> "Post", where |-> ById("1"), fields |-> Tree(<<"id", "title">>)],
    [entity |-> "Post", where |-> ById("3"), fields |-> Tree(<<"title">>)],
    [entity |-> "User", where |-> ById("1"), fields |-> Tree(<<"email">>)] }

LoadOneNested == \E c \in NestedCalls : LoadOne(c.entity, c.where, c.fields)

NestedNext ==
  \/ LoadOneNested
  \/ FlushFires
  \/ QueryReturns
  \/ ReactionRuns

NestedSpec == Init /\ [][NestedNext]_vars

\* The relations of the request's entity whose fields the selection asks for.
AskedRelations(q) ==
  {r \in Range(Meta[q.entity].relations) :
     HasChild(q.fields, r.propertyName) /\ Child(q.fields, r.propertyName).children # <<>>}

\* The entity `val` has relation r hydrated as an entity of r's target type
\* that carries exactly the columns the selection asks for.
HydratedRelation(val, q, r) ==
  /\ r.propertyName \in DOMAIN val.props
  /\ val.props[r.propertyName].t = "entity"
  /\ val.props[r.propertyName].type = r.inverse
  /\ DOMAIN val.props[r.propertyName].props =
       Keys(Child(q.fields, r.propertyName)) \cap Range(Meta[r.inverse].columns)

\* C14: nested hydration round trip.  Planning a selection with the fields of
\* a relation does not fail, and when the query returns rows, a loadOne whose
\* row and related row exist resolves to an entity that has each relation
\* asked for hydrated as an entity of the relation's target type with exactly
\* the fields asked for, and has no property for a relation not asked for.
C14_NestedHydration ==
  /\ [][FlushStep =>
          \A i \in 1..Len(queue) :
            (queue[i].entity \in Registered /\ queue[i].fields.kind = "tree")
              => promises'[queue[i].pid] = promises[queue[i].pid]]_vars
  /\ [][(ResumeStep /\ ~QueryFailed /\ Raw(ResumedBatch, 1) # <<>>) =>
          \A i \in 1..Len(ResumedBatch) :
            LET q == ResumedBatch[i] IN
            (~q.many /\ q.fields.kind = "tree" /\ Matches(q) # <<>> /\ db["User"] # <<>>) =>
              \E m \in microtasks' :
                /\ m.pid = q.pid
                /\ m.val.t = "entity"
                /\ \A r \in Range(Meta[q.entity].relations) :
                     IF r \in AskedRelations(q)
                     THEN HydratedRelation(m.val, q, r)
                     ELSE r.propertyName \notin DOMAIN m.val.props]_vars

----------------------------------------------------------------------------
\* The selection flattener (src/src/select.ts, graphqlFields and flattenAST).
\* A node of the query's AST has a kind, a name (of the field, or of the
\* fragment a spread names) and the selections of its selection set; the
\* fragment table (info.fragments) maps a name to a fragment definition.  A
\* Hash<Selection> is the sequence of its <<name, selection>> entries in
\* insertion order.  The arguments of a field are left out, as in every
\* selection of this model.

Field(name, selections) == [kind |-> "Field", name |-> name, selections |-> selections]
InlineFragment(selections) == [kind |-> "InlineFragment", name |-> "", selections |-> selections]
FragmentSpread(name) == [kind |-> "FragmentSpread", name |-> name, selections |-> <<>>]
FragmentDefinition(name, selections) ==
  [kind |-> "FragmentDefinition", name |-> name, selections |-> selections]
UndefinedAST == [kind |-> "undefined", name |-> "", selections |-> <<>>]

\* getSelections(ast): the selections of the node, none for a node without
\* selection set and for undefined.
getSelections(ast) == IF ast.kind # "undefined" THEN ast.selections ELSE <<>>

isFragment(ast) == ast.kind \in {"InlineFragment", "FragmentSpread"}

\* getAST(ast, info): info.fragments[name] for a spread (undefined when the
\* table has no such fragment), the node itself otherwise.
getAST(ast, fragments) ==
  IF ast.kind = "FragmentSpread"
  THEN (IF ast.name \in DOMAIN fragments THEN fragments[ast.name] ELSE UndefinedAST)
  ELSE ast

\* The properties every object literal {} inherits from Object.prototype
\* that are valid names of a GraphQL field.
PrototypeNames ==
  {"constructor", "toString", "toLocaleString", "valueOf", "hasOwnProperty",
   "isPrototypeOf", "propertyIsEnumerable"}

\* Own keys of a hash, the entry of a key, and the hash with the children of
\* an entry replaced.
HashHas(obj, name) == \E i \in 1..Len(obj) : obj[i][1] = name
HashGet(obj, name) == obj[CHOOSE i \in 1..Len(obj) : obj[i][1] = name][2]
HashSetChildren(obj, name, children) ==
  [i \in 1..Len(obj) |->
     IF obj[i][1] = name THEN <<name, [obj[i][2] EXCEPT !.children = children]>> ELSE obj[i]]

\* `if (flattened[name])`: an own entry is an object, and a name that is
\* not an own key is looked up in Object.prototype.
Truthy(obj, name) == HashHas(obj, name) \/ name \in PrototypeNames

Flattened(obj) == [thrown |-> FALSE, obj |-> obj]
FlattenThrows == [thrown |-> TRUE, obj |-> <<>>]

\* flattenAST(ast, info, obj): the reduce over getSelections(ast) from
\* selection i on, with the accumulator obj.  The hash passed in is the one
\* that is filled and returned, so Object.assign(flattened[name].children,
\* <that same object>) leaves it as the recursive call made it; when
\* flattened[name] is an inherited property, its .children is undefined and
\* Object.assign(undefined, ...) throws a TypeError.
RECURSIVE flattenAST(_, _, _, _)
flattenAST(ast, fragments, obj, i) ==
  IF i > Len(getSelections(ast)) THEN Flattened(obj)
  ELSE LET n == getSelections(ast)[i]
           step ==
             IF isFragment(n)
             THEN flattenAST(getAST(n, fragments), fragments, obj, 1)
             ELSE IF Truthy(obj, n.name)
             THEN IF ~HashHas(obj, n.name)
                  THEN FlattenThrows
                  ELSE LET inner == flattenAST(n, fragments, HashGet(obj, n.name).children, 1) IN
                       IF inner.thrown THEN FlattenThrows
                       ELSE Flattened(HashSetChildren(obj, n.name, inner.obj))
             ELSE LET inner == flattenAST(n, fragments, <<>>, 1) IN
                  IF inner.thrown THEN FlattenThrows
                  ELSE Flattened(Append(obj, <<n.name, [kind |-> "tree", children |-> inner.obj]>>))
       IN  IF step.thrown THEN FlattenThrows
           ELSE flattenAST(ast, fragments, step.obj, i + 1)

\* graphqlFields(info): { children: fields.reduce((o, ast) => flattenAST(ast,
\* info, o), {}) } from field node i on.
RECURSIVE graphqlFieldsFrom(_, _, _, _)
graphqlFieldsFrom(fieldNodes, fragments, obj, i) ==
  IF i > Len(fieldNodes) THEN Flattened(obj)
  ELSE LET r == flattenAST(fieldNodes[i], fragments, obj, 1) IN
       IF r.thrown THEN FlattenThrows
       ELSE graphqlFieldsFrom(fieldNodes, fragments, r.obj, i + 1)

graphqlFields(fieldNodes, fragments) ==
  LET r == graphqlFieldsFrom(fieldNodes, fragments, <<>>, 1) IN
  IF r.thrown THEN [st |-> "thrown"]
  ELSE [st |-> "returned", fields |-> [kind |-> "tree", children |-> r.obj]]

\* The queries the flattener is called with: a resolver for the field post
\* whose selection set holds up to two of: the fields id and constructor, the
\* field owner with up to two selections (id, email, the spread of
\* UserParts), the same inside an inline fragment, and the spread of
\* PostParts; or two field nodes for post with one selection each.
SeqsUpTo(S, n) == UNION {[1..k -> S] : k \in 0..n}

InnerNodes == {Field("id", <<>>), Field("email", <<>>), FragmentSpread("UserParts")}
InnerSets == SeqsUpTo(InnerNodes, 2)
OuterNodes ==
  {Field("id", <<>>), Field("constructor", <<>>), FragmentSpread("PostParts")}
    \cup {Field("owner", sel) : sel \in InnerSets}
    \cup {InlineFragment(<<Field("owner", sel)>>) : sel \in InnerSets}
OuterSets == SeqsUpTo(OuterNodes, 2) \ {<<>>}

FieldNodeLists ==
  {<<Field("post", sel)>> : sel \in OuterSets}
    \cup {<<Field("post", <<a>>), Field("post", <<b>>)>> :
            a, b \in {Field("id", <<>>), FragmentSpread("PostParts"),
                      Field("owner", <<Field("email", <<>>)>>)}}

FragmentTables ==
  { [UserParts |-> FragmentDefinition("UserParts", <<Field("email", <<>>)>>),
     PostParts |-> FragmentDefinition("PostParts",
                     <<Field("owner", <<Field("id", <<>>)>>), Field("title", <<>>)>>)],
    [UserParts |-> FragmentDefinition("UserParts", <<Field("id", <<>>), Field("email", <<>>)>>),
     PostParts |-> FragmentDefinition("PostParts",
                     <<Field("owner", <<FragmentSpread("UserParts")>>)>>)] }

FlattenInit ==
  /\ queue = <<>>
  /\ cache = {}
  /\ immediate = 0
  /\ armed = {}
  /\ inflight = {}
  /\ promises = <<>>
  /\ microtasks = {}
  /\ db = [Post |-> <<Post1, Post2>>, User |-> <<User1>>]
  /\ batchCalls = {}
  /\ sinceClear = {}
  /\ cleared = FALSE
  /\ plan = NoPlan
  /\ flat \in {[fieldNodes |-> f, fragments |-> t, result |-> [st |-> "called"]] :
                 f \in FieldNodeLists, t \in FragmentTables}

\* The call of graphqlFields(info) returns or throws.
GraphqlFields ==
  /\ flat.result.st = "called"
  /\ flat' = [flat EXCEPT !.result = graphqlFields(flat.fieldNodes, flat.fragments)]
  /\ UNCHANGED <<loaderVars, plan>>

FlattenNext == GraphqlFields

FlattenSpec == FlattenInit /\ [][FlattenNext]_vars

\* The concatenation of the selection sets of a sequence of nodes.
RECURSIVE AllSelections(_)
AllSelections(nodes) ==
  IF nodes = <<>> THEN <<>> ELSE Head(nodes).selections \o AllSelections(Tail(nodes))

\* A selection set with every fragment replaced by the selections of the
\* fragment, at every level: a sequence of fields.
RECURSIVE Inlined(_, _)
Inlined(selections, fragments) ==
  IF selections = <<>> THEN <<>>
  ELSE LET n == Head(selections) IN
       (IF n.kind = "Field" THEN <<Field(n.name, Inlined(n.selections, fragments))>>
        ELSE IF n.kind = "InlineFragment" THEN Inlined(n.selections, fragments)
        ELSE IF n.name \in DOMAIN fragments
             THEN Inlined(fragments[n.name].selections, fragments)
             ELSE <<>>)
       \o Inlined(Tail(selections), fragments)

\* What the claim expects of a level made of the fields `fields` (fragments
\* inlined): one key for each field name that occurs, whose children are
\* expected of the selections of all occurrences together.
RECURSIVE Expected(_)
Expected(fields) ==
  [name \in {fields[i].name : i \in 1..Len(fields)} |->
     Expected(AllSelections(SelectSeq(fields, LAMBDA f : f.name = name)))]

\* A flattened level as a map from its keys to their children.
RECURSIVE AsMap(_)
AsMap(obj) == [name \in {obj[i][1] : i \in 1..Len(obj)} |-> AsMap(HashGet(obj, name).children)]

InlinedFieldNodes(fieldNodes, fragments) ==
  [i \in 1..Len(fieldNodes) |->
     Field(fieldNodes[i].name, Inlined(fieldNodes[i].selections, fragments))]

\* C21: selection flattening.  graphqlFields returns a tree whose key set at
\* each level is the set of the field names that occur at that level
\* directly, in inline fragments or in spread fragments, the children of a
\* name being the union of the children of all its occurrences, and it
\* returns the same tree for the query with all fragments inlined.
C21_SelectionFlattening ==
  flat.result.st \notin {"none", "called"} =>
    /\ flat.result.st = "returned"
    /\ AsMap(flat.result.fields.children) =
         Expected(Inlined(AllSelections(flat.fieldNodes), flat.fragments))
    /\ flat.result =
         graphqlFields(InlinedFieldNodes(flat.fieldNodes, flat.fragments), flat.fragments)

----------------------------------------------------------------------------
\* The requests that are not settled yet: those in the pending queue and
\* those of the batches whose processAll run awaits its query.
Unsettled == Range(queue) \cup UNION {Range(b) : b \in inflight}

\* C22: loadOne and loadMany never share a cache entry.  While a request is
\* queued or awaits its query, a call of the other kind (loadMany for a
\* loadOne, loadOne for a loadMany) with the same entity, condition and
\* selection does not return that request's future.
C22_KindInFingerprint ==
  \A q \in Unsettled :
    LET r == Load(Loader, q.entity, q.where, q.fields, ~q.many)
    IN  ~(r.hit /\ r.ret = q.pid)

----------------------------------------------------------------------------
\* The names the first loop of processAll gives a request in the merged
\* query: the alias of its join (q.key) and the names of its parameters
\* (`${alias}_${key}` for each key of q.where).
JoinAlias(q) == q.key
ParamNames(q) == {<<q.key, q.where[i][1]>> : i \in 1..Len(q.where)}

\* C23: the pending queue never holds two requests with the same
\* fingerprint, and in a captured batch the join aliases and the parameter
\* names of different requests are different.
C23_QueueKeysDistinct ==
  /\ \A i, j \in 1..Len(queue) : i # j => queue[i].key # queue[j].key
  /\ \A b \in inflight : \A i, j \in 1..Len(b) :
       i # j => /\ JoinAlias(b[i]) # JoinAlias(b[j])
                /\ ParamNames(b[i]) \cap ParamNames(b[j]) = {}

----------------------------------------------------------------------------
\* The batch a processAll run works on in this step: the captured queue when
\* the run starts, the batch that leaves inflight when it resumes.
ProcessedBatch == IF ResumeStep THEN ResumedBatch ELSE queue

\* C24: a cache entry is removed only by clear() or by the processAll run
\* that settles the request whose future the entry stores; the entry of a
\* newer request with the same key stays when a request of an older batch
\* settles.
C24_EvictionByOwner ==
  [][cache \ cache' # {} =>
       \/ cleared'
       \/ /\ ResumeStep \/ FlushStep
          /\ \A e \in cache \ cache' :
               \E i \in 1..Len(ProcessedBatch) : ProcessedBatch[i].pid = e.pid]_vars

----------------------------------------------------------------------------
\* C25: whenever the pending queue is not empty a deferred flush is armed,
\* a flush is armed only while the queue is not empty, and so processAll
\* never runs on an empty queue.
C25_FlushArmed ==
  /\ [](queue # <<>> => armed # {})
  /\ [](armed # {} => queue # <<>>)
  /\ [][FlushStep => queue # <<>>]_vars

C25_Witness ==
  /\ cleared
  /\ inflight # {}
  /\ queue # <<>>
  /\ armed = {queue[Len(queue)].pid}

----------------------------------------------------------------------------
\* The loader called with unrelated requests, each with a fingerprint of its
\* own, for posts and users, over a database whose User table is filled or
\* empty: a post that exists, a post that does not, a user by email, and a
\* user that does not exist.

ByEmail(v) == << <<"email", v>> >>

UnrelatedCalls ==
  { [entity |-> "Post", where |-> ById("1"), fields |-> NullSelection],
    [entity |-> "Post", where |-> ById("3"), fields |-> Tree(<<"title">>)],
    [entity |-> "User", where |-> ByEmail("e"), fields |-> NullSelection],
    [entity |-> "User", where |-> ById("3"), fields |-> Tree(<<"email">>)] }

LoadOneUnrelated == \E c \in UnrelatedCalls : LoadOne(c.entity, c.where, c.fields)
LoadManyUnrelated == \E c \in UnrelatedCalls : LoadMany(c.entity, c.where, c.fields)

UnrelatedNext ==
  \/ LoadOneUnrelated
  \/ LoadManyUnrelated
  \/ FlushFires
  \/ QueryReturns
  \/ ReactionRuns

UnrelatedSpec == Init /\ [][UnrelatedNext]_vars

\* What processAll makes of request q when q is alone in its flush and its
\* query returns.
Alone(q) == ProcessRaw(Continuation, <<q>>, Raw(<<q>>, 1))

\* C26: batch independence.  When the query of a batch returns, every request
\* of the batch is settled as it is when it is alone in its flush: its promise
\* takes the same state and value, and the same hydration is under way for it.
C26_BatchIndependence ==
  [][(ResumeStep /\ ~QueryFailed) =>
       \A i \in 1..Len(ResumedBatch) :
         LET q == ResumedBatch[i] IN
         /\ promises'[q.pid] = Alone(q).promises[q.pid]
         /\ {m \in microtasks' : m.pid = q.pid} = {m \in Alone(q).microtasks : m.pid = q.pid}]_vars
====
